---- MODULE Spec2Model ----
(***************************************************************************)
(* The css selector builder of src/src/06-objects-tasks.js.                *)
(*                                                                         *)
(* Objects live in a heap addressed by references 1..Len(heap); reference  *)
(* 0 is the object cssSelectorBuilder itself (the bare entry point, which  *)
(* is also selectorBase.prototype).  A fragment is an object made by one   *)
(* of the kind constructors; a combined selector is the object literal     *)
(* returned by combine, holding the three captured arguments.              *)
(***************************************************************************)
EXTENDS Naturals, Sequences, FiniteSets, TLC

\* Bound on the number of objects a run allocates.
MaxObjects == 3

\* Bound on the number of combined selectors built on the three fragments of
\* InitCombine.
MaxCombined == 2

\* Payloads passed to the part methods, and combinator strings passed to combine
\* ("x" is outside the documented set ' ', '+', '~', '>').
Values == {"a", "b"}
Combinators == {" ", "+", "x"}

Methods == {"element", "id", "class", "attr", "pseudoClass", "pseudoElement"}
Errors == {"selectorsOrderError", "multipleSelectorsError"}

VARIABLES
  heap,      \* sequence of allocated objects
  chain,     \* history: chain[r] is the sequence of part calls that built fragment r
  lastCall   \* the call performed by the last step and how it ended

vars == <<heap, chain, lastCall>>

Refs == 1..Len(heap)
Fragments == {r \in Refs : heap[r].ctor # "combine"}
CombinedSelectors == {r \in Refs : heap[r].ctor = "combine"}
IsCombined(h, r) == r # 0 /\ h[r].ctor = "combine"
IsFragment(h, r) == r # 0 /\ h[r].ctor # "combine"

\* `builder instanceof selectorBase`: selectorBase.prototype (which is the object
\* cssSelectorBuilder) lies on the prototype chain of every fragment, but not on
\* that of cssSelectorBuilder itself nor of an object literal.
instanceofSelectorBase_self(h, builder) == builder = 0 \/ IsFragment(h, builder)
instanceofSelectorBase(h, builder) == IsFragment(h, builder)

(***************************************************************************)
(* Rendering.                                                              *)
(***************************************************************************)
\* The currentValueStr of each prototype.
selectorBase_currentValueStr(value) == value
IdSelector_currentValueStr(value) == "#" \o value
ClassSelector_currentValueStr(value) == "." \o value
AttrSelector_currentValueStr(value) == "[" \o value \o "]"
PseudoClassSelector_currentValueStr(value) == ":" \o value
PseudoElementSelector_currentValueStr(value) == "::" \o value

\* this.currentValueStr(), found along the prototype chain of `this`.
currentValueStr(h, this) ==
  IF this = 0 THEN selectorBase_currentValueStr("undefined")
  ELSE LET v == h[this].value IN
    CASE h[this].ctor = "IdSelector" -> IdSelector_currentValueStr(v)
      [] h[this].ctor = "ClassSelector" -> ClassSelector_currentValueStr(v)
      [] h[this].ctor = "AttrSelector" -> AttrSelector_currentValueStr(v)
      [] h[this].ctor = "PseudoClassSelector" -> PseudoClassSelector_currentValueStr(v)
      [] h[this].ctor = "PseudoElementSelector" -> PseudoElementSelector_currentValueStr(v)
      [] OTHER -> selectorBase_currentValueStr(v)

\* this.prevValue; cssSelectorBuilder has no such property.
prevValueOf(h, this) == IF this = 0 THEN "undefined" ELSE h[this].prevValue

RECURSIVE stringify(_, _)

selectorBase_stringify_reversed(h, this) == currentValueStr(h, this) \o prevValueOf(h, this)
selectorBase_stringify(h, this) == prevValueOf(h, this) \o currentValueStr(h, this)

combine_stringify_grouped(h, this) ==
  "(" \o stringify(h, h[this].selector1) \o " " \o h[this].combinator \o " "
    \o stringify(h, h[this].selector2) \o ")"
combine_stringify_nospace(h, this) ==
  stringify(h, h[this].selector1) \o h[this].combinator \o stringify(h, h[this].selector2)
\* The stringify of the object returned by combine; its operands are rendered now.
combine_stringify(h, this) ==
  stringify(h, h[this].selector1) \o " " \o h[this].combinator \o " "
    \o stringify(h, h[this].selector2)

stringify(h, this) ==
  IF IsCombined(h, this) THEN combine_stringify(h, this) ELSE selectorBase_stringify(h, this)

\* x.stringify() as a call: how it ends, the heap it leaves and the string returned.
stringify_call_resetting(h, this) ==
  [outcome |-> "returned",
   heap |-> IF IsFragment(h, this) THEN [h EXCEPT ![this].prevValue = ""] ELSE h,
   str |-> stringify(h, this)]
stringify_call(h, this) == [outcome |-> "returned", heap |-> h, str |-> stringify(h, this)]

(***************************************************************************)
(* Constructors.                                                           *)
(***************************************************************************)
prevValueFrom(h, builder) ==
  IF instanceofSelectorBase(h, builder) THEN stringify(h, builder) ELSE ""

ElementSelector(h, val, builder) ==
  [ctor |-> "ElementSelector", value |-> val, prevValue |-> prevValueFrom(h, builder)]
IdSelector(h, val, builder) ==
  [ctor |-> "IdSelector", value |-> val, prevValue |-> prevValueFrom(h, builder)]
ClassSelector(h, val, builder) ==
  [ctor |-> "ClassSelector", value |-> val, prevValue |-> prevValueFrom(h, builder)]
AttrSelector(h, val, builder) ==
  [ctor |-> "AttrSelector", value |-> val, prevValue |-> prevValueFrom(h, builder)]
PseudoClassSelector(h, val, builder) ==
  [ctor |-> "PseudoClassSelector", value |-> val, prevValue |-> prevValueFrom(h, builder)]
PseudoElementSelector(h, val, builder) ==
  [ctor |-> "PseudoElementSelector", value |-> val, prevValue |-> prevValueFrom(h, builder)]

(***************************************************************************)
(* Functions.  Each yields how the call ends and the heap it leaves.       *)
(***************************************************************************)
\* `new`: the object gets a reference of its own.
newObject_overwrite(h, obj, this) == IF this = 0 THEN Append(h, obj) ELSE [h EXCEPT ![this] = obj]
newObject(h, obj, this) == Append(h, obj)

Returned(h) == [outcome |-> "returned", heap |-> h]

element(h, value, this) == Returned(newObject(h, ElementSelector(h, value, this), this))
id(h, value, this) == Returned(newObject(h, IdSelector(h, value, this), this))
class(h, value, this) == Returned(newObject(h, ClassSelector(h, value, this), this))
attr(h, value, this) == Returned(newObject(h, AttrSelector(h, value, this), this))
pseudoClass(h, value, this) == Returned(newObject(h, PseudoClassSelector(h, value, this), this))
pseudoElement(h, value, this) ==
  Returned(newObject(h, PseudoElementSelector(h, value, this), this))

combine_validating(h, selector1, combinator, selector2) ==
  IF combinator \in {" ", "+", "~", ">"}
  THEN Returned(Append(h, [ctor |-> "combine", selector1 |-> selector1,
                           combinator |-> combinator, selector2 |-> selector2]))
  ELSE [outcome |-> "invalidCombinator", heap |-> h]
combine(h, selector1, combinator, selector2) ==
  Returned(Append(h, [ctor |-> "combine", selector1 |-> selector1,
                      combinator |-> combinator, selector2 |-> selector2]))

selectorsOrderError_assigns(h, value, this) ==
  [outcome |-> "selectorsOrderError", heap |-> [h EXCEPT ![this].value = value]]
selectorsOrderError(h, value, this) == [outcome |-> "selectorsOrderError", heap |-> h]
multipleSelectorsError_assigns(h, value, this) ==
  [outcome |-> "multipleSelectorsError", heap |-> [h EXCEPT ![this].value = value]]
multipleSelectorsError(h, value, this) == [outcome |-> "multipleSelectorsError", heap |-> h]

(***************************************************************************)
(* Prototypes: the own properties that shadow the methods of               *)
(* cssSelectorBuilder.                                                     *)
(***************************************************************************)
ElementSelector_prototype_none == [element |-> "element"]
IdSelector_prototype_noElement == [id |-> "multipleSelectorsError"]
ClassSelector_prototype_noElement == [id |-> "selectorsOrderError"]
AttrSelector_prototype_noId ==
  [element |-> "selectorsOrderError", class |-> "selectorsOrderError"]
ClassSelector_prototype_single ==
  [element |-> "selectorsOrderError", id |-> "selectorsOrderError",
   class |-> "multipleSelectorsError"]
AttrSelector_prototype_noClass ==
  [element |-> "selectorsOrderError", id |-> "selectorsOrderError"]
PseudoElementSelector_prototype_noPseudoClass ==
  [pseudoElement |-> "multipleSelectorsError", element |-> "selectorsOrderError",
   id |-> "selectorsOrderError", class |-> "selectorsOrderError",
   attr |-> "selectorsOrderError"]
PseudoClassSelector_prototype_noAttr ==
  [element |-> "selectorsOrderError", id |-> "selectorsOrderError",
   class |-> "selectorsOrderError"]

ElementSelector_prototype == [element |-> "multipleSelectorsError"]
IdSelector_prototype ==
  [id |-> "multipleSelectorsError", element |-> "selectorsOrderError"]
ClassSelector_prototype ==
  [element |-> "selectorsOrderError", id |-> "selectorsOrderError"]
AttrSelector_prototype ==
  [element |-> "selectorsOrderError", id |-> "selectorsOrderError",
   class |-> "selectorsOrderError"]
PseudoClassSelector_prototype ==
  [element |-> "selectorsOrderError", id |-> "selectorsOrderError",
   class |-> "selectorsOrderError", attr |-> "selectorsOrderError"]
PseudoElementSelector_prototype ==
  [pseudoElement |-> "multipleSelectorsError", element |-> "selectorsOrderError",
   id |-> "selectorsOrderError", class |-> "selectorsOrderError",
   attr |-> "selectorsOrderError", pseudoClass |-> "selectorsOrderError"]

prototypeOf(h, this) ==
  CASE h[this].ctor = "ElementSelector" -> ElementSelector_prototype
    [] h[this].ctor = "IdSelector" -> IdSelector_prototype
    [] h[this].ctor = "ClassSelector" -> ClassSelector_prototype
    [] h[this].ctor = "AttrSelector" -> AttrSelector_prototype
    [] h[this].ctor = "PseudoClassSelector" -> PseudoClassSelector_prototype
    [] h[this].ctor = "PseudoElementSelector" -> PseudoElementSelector_prototype

\* Property lookup this[method]: the own property of the prototype if there is
\* one, else the method of cssSelectorBuilder.
Lookup(h, this, method) ==
  IF this # 0 /\ method \in DOMAIN prototypeOf(h, this)
  THEN prototypeOf(h, this)[method]
  ELSE method

\* this[method](value)
Invoke(h, this, method, value) ==
  LET fn == Lookup(h, this, method) IN
  CASE fn = "selectorsOrderError" -> selectorsOrderError(h, value, this)
    [] fn = "multipleSelectorsError" -> multipleSelectorsError(h, value, this)
    [] fn = "element" -> element(h, value, this)
    [] fn = "id" -> id(h, value, this)
    [] fn = "class" -> class(h, value, this)
    [] fn = "attr" -> attr(h, value, this)
    [] fn = "pseudoClass" -> pseudoClass(h, value, this)
    [] fn = "pseudoElement" -> pseudoElement(h, value, this)

(***************************************************************************)
(* The state machine: a caller holding references to every object built so *)
(* far performs one call per step.                                         *)
(***************************************************************************)
Init ==
  /\ heap = << >>
  /\ chain = << >>
  /\ lastCall = [op |-> "none", self |-> 0, arg |-> "", outcome |-> "returned",
                 ref |-> 0, str |-> ""]

ChainOf(this) == IF this = 0 THEN << >> ELSE chain[this]

\* this[method](value) on the bare builder or on a fragment.
PartCall(method, this, value) ==
  /\ this = 0 \/ IsFragment(heap, this)
  /\ LET r == Invoke(heap, this, method, value) IN
       /\ Len(r.heap) <= MaxObjects
       /\ heap' = r.heap
       /\ IF r.outcome = "returned"
          THEN /\ chain' = Append(chain, Append(ChainOf(this), [kind |-> method, value |-> value]))
               /\ lastCall' = [op |-> method, self |-> this, arg |-> value,
                               outcome |-> "returned", ref |-> Len(r.heap), str |-> ""]
          ELSE /\ chain' = chain
               /\ lastCall' = [op |-> method, self |-> this, arg |-> value,
                               outcome |-> r.outcome, ref |-> 0, str |-> ""]

CallElement == \E this \in {0} \cup Refs, value \in Values : PartCall("element", this, value)
CallId == \E this \in {0} \cup Refs, value \in Values : PartCall("id", this, value)
CallClass == \E this \in {0} \cup Refs, value \in Values : PartCall("class", this, value)
CallAttr == \E this \in {0} \cup Refs, value \in Values : PartCall("attr", this, value)
CallPseudoClass ==
  \E this \in {0} \cup Refs, value \in Values : PartCall("pseudoClass", this, value)
CallPseudoElement ==
  \E this \in {0} \cup Refs, value \in Values : PartCall("pseudoElement", this, value)

\* builder.combine(selector1, combinator, selector2) on two built selectors.
CombineCall(selector1, combinator, selector2, maxLen) ==
    LET r == combine(heap, selector1, combinator, selector2) IN
      /\ Len(r.heap) <= maxLen
      /\ heap' = r.heap
      /\ chain' = IF r.outcome = "returned" THEN Append(chain, << >>) ELSE chain
      /\ lastCall' = [op |-> "combine", self |-> 0, arg |-> combinator,
                      outcome |-> r.outcome,
                      ref |-> IF r.outcome = "returned" THEN Len(r.heap) ELSE 0,
                      str |-> ""]

CallCombine ==
  \E selector1 \in Refs, selector2 \in Refs, combinator \in Combinators :
    CombineCall(selector1, combinator, selector2, MaxObjects)

\* selector.stringify() on a fragment or a combined selector.
CallStringify ==
  \E this \in Refs :
    LET r == stringify_call(heap, this) IN
      /\ heap' = r.heap
      /\ chain' = chain
      /\ lastCall' = [op |-> "stringify", self |-> this, arg |-> "", outcome |-> r.outcome,
                      ref |-> 0, str |-> r.str]

Next ==
  \/ CallElement
  \/ CallId
  \/ CallClass
  \/ CallAttr
  \/ CallPseudoClass
  \/ CallPseudoElement
  \/ CallCombine
  \/ CallStringify

Spec == Init /\ [][Next]_vars

(***************************************************************************)
(* Combinator trees.  The caller has built three fragments, rendering      *)
(* 'a', 'a.b' and '#b', and from then on combines and renders.             *)
(***************************************************************************)
InitCombine ==
  LET h1 == element(<< >>, "a", 0).heap
      h2 == class(h1, "b", 1).heap
      h3 == id(h2, "b", 0).heap
      c1 == <<[kind |-> "element", value |-> "a"]>>
  IN /\ heap = h3
     /\ chain = <<c1, Append(c1, [kind |-> "class", value |-> "b"]),
                  <<[kind |-> "id", value |-> "b"]>> >>
     /\ lastCall = [op |-> "id", self |-> 0, arg |-> "b", outcome |-> "returned",
                    ref |-> Len(h3), str |-> ""]

CallCombineNested ==
  \E selector1 \in Refs, selector2 \in Refs, combinator \in Combinators :
    CombineCall(selector1, combinator, selector2, Cardinality(Fragments) + MaxCombined)

NextCombine ==
  \/ CallCombineNested
  \/ CallStringify

SpecCombine == InitCombine /\ [][NextCombine]_vars

(***************************************************************************)
(* The rules of the specification, stated on the call history.             *)
(***************************************************************************)
SingleOccurrence == {"element", "id", "pseudoElement"}

Pos(kind) ==
  CASE kind = "element" -> 0
    [] kind = "id" -> 1
    [] kind = "class" -> 2
    [] kind = "attr" -> 3
    [] kind = "pseudoClass" -> 4
    [] kind = "pseudoElement" -> 5

RenderPart(kind, value) ==
  CASE kind = "element" -> value
    [] kind = "id" -> "#" \o value
    [] kind = "class" -> "." \o value
    [] kind = "attr" -> "[" \o value \o "]"
    [] kind = "pseudoClass" -> ":" \o value
    [] kind = "pseudoElement" -> "::" \o value

RECURSIVE RenderChain(_)
RenderChain(parts) ==
  IF parts = << >> THEN ""
  ELSE RenderChain(SubSeq(parts, 1, Len(parts) - 1))
         \o RenderPart(parts[Len(parts)].kind, parts[Len(parts)].value)

Kinds(parts) == [i \in 1..Len(parts) |-> parts[i].kind]
HasKind(parts, kind) == \E i \in 1..Len(parts) : parts[i].kind = kind
LastKind(parts) == IF parts = << >> THEN "none" ELSE parts[Len(parts)].kind

\* The validator of the specification, decided on the whole chain.
Decision(parts, requested) ==
  IF \E i \in 1..Len(parts) : Pos(requested) < Pos(parts[i].kind)
  THEN "selectorsOrderError"
  ELSE IF requested \in SingleOccurrence /\ HasKind(parts, requested)
  THEN "multipleSelectorsError"
  ELSE "returned"

PartCalled == lastCall.op \in Methods
ReceiverChain == ChainOf(lastCall.self)

\* C1: stringify() on a fragment built by an accepted chain of part calls returns
\* the concatenation, in call order and without separators, of the per-kind
\* renderings of the parts.
C1_StringifyIsConcatenation ==
  /\ \A r \in Fragments : stringify(heap, r) = RenderChain(chain[r])
  /\ (lastCall.op = "stringify" /\ IsFragment(heap, lastCall.self))
       => lastCall.str = RenderChain(chain[lastCall.self])

C1_Witness ==
  /\ lastCall.op = "stringify"
  /\ IsFragment(heap, lastCall.self)
  /\ Kinds(chain[lastCall.self]) = <<"element", "attr", "pseudoClass">>
  /\ lastCall.str = "a[b]:a"

\* C2: the outcome of a part call is decided by the chain history: the order
\* error if the requested kind sorts before a kind already present, else the
\* cardinality error if it is a single-occurrence kind already present, else a
\* new fragment; after id, element() is an order error, id() a cardinality error
\* and class() legal.
C2_OutcomeDecidedByHistory ==
  /\ PartCalled => lastCall.outcome = Decision(ReceiverChain, lastCall.op)
  /\ (PartCalled /\ lastCall.outcome = "returned") =>
       /\ lastCall.ref = Len(heap)
       /\ lastCall.ref # lastCall.self
       /\ IsFragment(heap, lastCall.ref)
       /\ chain[lastCall.ref] =
            Append(ReceiverChain, [kind |-> lastCall.op, value |-> lastCall.arg])
  /\ \A r \in Fragments : \A m \in Methods :
       LET d == Decision(chain[r], m) IN
         Lookup(heap, r, m) = IF d = "returned" THEN m ELSE d
  /\ \A r \in Fragments : LastKind(chain[r]) = "id" =>
       /\ Lookup(heap, r, "element") = "selectorsOrderError"
       /\ Lookup(heap, r, "id") = "multipleSelectorsError"
       /\ Lookup(heap, r, "class") = "class"

C2_Witness ==
  /\ lastCall.op = "id"
  /\ Kinds(ReceiverChain) = <<"element", "id">>
  /\ lastCall.outcome = "multipleSelectorsError"

\* C3 as claimed: element() on a fragment whose chain already contains an element
\* part raises the cardinality error, whatever parts were added after it.
C3_SecondElementIsCardinalityError ==
  (lastCall.op = "element" /\ HasKind(ReceiverChain, "element"))
    => lastCall.outcome = "multipleSelectorsError"

\* C3 as amended: element() on a fragment whose chain already contains an element
\* part raises an error: the cardinality error when the element part is the last
\* part of the chain, the order error when other parts were added after it.
C3_SecondElementRaises ==
  /\ (lastCall.op = "element" /\ HasKind(ReceiverChain, "element")) =>
       lastCall.outcome = IF LastKind(ReceiverChain) = "element"
                          THEN "multipleSelectorsError"
                          ELSE "selectorsOrderError"
  /\ \A r \in Fragments : HasKind(chain[r], "element") =>
       Lookup(heap, r, "element") = IF LastKind(chain[r]) = "element"
                                    THEN "multipleSelectorsError"
                                    ELSE "selectorsOrderError"

C3_Witness ==
  /\ lastCall.op = "element"
  /\ Kinds(ReceiverChain) = <<"element", "class">>
  /\ lastCall.outcome = "selectorsOrderError"

\* C4: id() on a fragment whose chain contains a class part raises the order
\* error, directly after class or after further parts.
C4_IdAfterClassIsOrderError ==
  /\ (lastCall.op = "id" /\ HasKind(ReceiverChain, "class"))
       => lastCall.outcome = "selectorsOrderError"
  /\ \A r \in Fragments : HasKind(chain[r], "class") =>
       Lookup(heap, r, "id") = "selectorsOrderError"

C4_Witness ==
  /\ lastCall.op = "id"
  /\ Kinds(ReceiverChain) = <<"class", "attr">>
  /\ lastCall.outcome = "selectorsOrderError"

\* C5: in every reachable fragment each of element, id and pseudoElement occurs
\* at most once in the chain.
C5_SingleOccurrence ==
  \A r \in Fragments : \A k \in SingleOccurrence :
    Cardinality({i \in 1..Len(chain[r]) : chain[r][i].kind = k}) <= 1

C5_Witness ==
  \E r \in Fragments : Kinds(chain[r]) = <<"element", "id", "pseudoElement">>

\* C6: in every reachable fragment the kinds of the chain are non-decreasing in
\* the order element < id < class < attr < pseudoClass < pseudoElement.
C6_KindsNonDecreasing ==
  \A r \in Fragments : \A i, j \in 1..Len(chain[r]) :
    i < j => Pos(chain[r][i].kind) <= Pos(chain[r][j].kind)

C6_Witness ==
  \E r \in Fragments : Kinds(chain[r]) = <<"id", "attr", "pseudoClass">>

RECURSIVE Rendering(_)
\* The string the specification assigns to a selector value.
Rendering(r) ==
  IF IsCombined(heap, r)
  THEN Rendering(heap[r].selector1) \o " " \o heap[r].combinator \o " "
         \o Rendering(heap[r].selector2)
  ELSE RenderChain(chain[r])

\* C7: combine(A, c, B).stringify() is A.stringify() + ' ' + c + ' ' + B.stringify()
\* for fragments and combined selectors A and B nested to any depth, so that the
\* combinator ' ' yields three consecutive spaces.
C7_CombineJoinsWithSpaces ==
  /\ \A r \in CombinedSelectors :
       /\ stringify(heap, r) =
            stringify(heap, heap[r].selector1) \o " " \o heap[r].combinator \o " "
              \o stringify(heap, heap[r].selector2)
       /\ stringify(heap, r) = Rendering(r)
       /\ heap[r].combinator = " " =>
            stringify(heap, r) =
              Rendering(heap[r].selector1) \o "   " \o Rendering(heap[r].selector2)
  /\ (lastCall.op = "stringify" /\ IsCombined(heap, lastCall.self))
       => lastCall.str = Rendering(lastCall.self)

C7_Witness ==
  /\ lastCall.op = "stringify"
  /\ IsCombined(heap, lastCall.self)
  /\ heap[lastCall.self].combinator = "+"
  /\ IsCombined(heap, heap[lastCall.self].selector2)
  /\ lastCall.str = "a + a   a"

\* C8: an order or cardinality error is raised by the part call itself and never
\* by stringify(); the failed call creates no fragment and leaves the receiver
\* unchanged, which renders the same string and resolves every part method as
\* before.
C8_FailedCallChangesNothing ==
  [][ /\ lastCall'.op = "stringify" => lastCall'.outcome = "returned"
      /\ lastCall'.outcome \in Errors =>
           /\ lastCall'.op \in Methods
           /\ heap' = heap
           /\ lastCall'.self \in Refs
           /\ stringify(heap', lastCall'.self) = stringify(heap, lastCall'.self)
           /\ \A m \in Methods :
                Lookup(heap', lastCall'.self, m) = Lookup(heap, lastCall'.self, m)
    ]_vars

C8_Witness ==
  /\ lastCall.outcome = "selectorsOrderError"
  /\ lastCall.op = "class"
  /\ Len(heap) = 2
  /\ lastCall.arg # heap[lastCall.self].value

\* C9: a part call on a fragment F returns a new fragment and leaves F's value,
\* prefix and rendering unchanged, so chains extended from a shared prefix do not
\* alter one another's strings.
C9_ExtensionLeavesOthersUnchanged ==
  [][ /\ Len(heap) <= Len(heap')
      /\ \A r \in 1..Len(heap) :
           /\ heap'[r] = heap[r]
           /\ stringify(heap', r) = stringify(heap, r)
      /\ (lastCall'.op \in Methods /\ lastCall'.outcome = "returned") =>
           /\ lastCall'.ref = Len(heap) + 1
           /\ Len(heap') = Len(heap) + 1
    ]_vars

C9_Witness ==
  /\ Len(heap) = 3
  /\ Fragments = {1, 2, 3}
  /\ Len(chain[1]) = 1
  /\ chain[2] = Append(chain[1], [kind |-> "class", value |-> "a"])
  /\ chain[3] = Append(chain[1], [kind |-> "class", value |-> "b"])
  /\ heap[2].prevValue = heap[3].prevValue
  /\ stringify(heap, 2) # stringify(heap, 3)

\* C10: each part method called on the bare cssSelectorBuilder succeeds and gives
\* a fragment with the empty prefix, whatever was built, combined, rendered or
\* rejected before.
C10_BareBuilderStartsEmptyChain ==
  /\ \A m \in Methods : Lookup(heap, 0, m) = m
  /\ (PartCalled /\ lastCall.self = 0) =>
       /\ lastCall.outcome = "returned"
       /\ IsFragment(heap, lastCall.ref)
       /\ heap[lastCall.ref].prevValue = ""
       /\ stringify(heap, lastCall.ref) = RenderPart(lastCall.op, lastCall.arg)

C10_Witness ==
  /\ PartCalled
  /\ lastCall.self = 0
  /\ lastCall.ref = 3
  /\ IsFragment(heap, 1)
  /\ IsCombined(heap, 2)
  /\ heap[3].prevValue = ""

\* C11: stringify() is idempotent and without side effects: a call returns the
\* string any further call on the same value returns, and changes neither that
\* value nor any other object or its rendering.
C11_StringifyHasNoEffect ==
  [][ lastCall'.op = "stringify" =>
        /\ heap' = heap
        /\ chain' = chain
        /\ lastCall'.str = stringify(heap, lastCall'.self)
        /\ stringify_call(heap', lastCall'.self).str = lastCall'.str
        /\ \A r \in Refs : stringify(heap', r) = stringify(heap, r)
        /\ (lastCall.op = "stringify" /\ lastCall.self = lastCall'.self)
             => lastCall'.str = lastCall.str
    ]_vars

C11_Witness ==
  /\ lastCall.op = "stringify"
  /\ IsFragment(heap, lastCall.self)
  /\ Len(chain[lastCall.self]) = 2
  /\ \E r \in CombinedSelectors : heap[r].selector1 = lastCall.self
  /\ lastCall.str = stringify(heap, lastCall.self)

Repeatable == {"class", "attr", "pseudoClass"}

\* C12: class, attr and pseudoClass may each be repeated in a row without error:
\* on a fragment whose last part is one of them the same method is legal, and the
\* repeated parts are rendered in call order.
C12_RepeatableKindsRepeat ==
  /\ \A r \in Fragments : LastKind(chain[r]) \in Repeatable =>
       Lookup(heap, r, LastKind(chain[r])) = LastKind(chain[r])
  /\ (PartCalled /\ lastCall.op \in Repeatable /\ LastKind(ReceiverChain) = lastCall.op) =>
       /\ lastCall.outcome = "returned"
       /\ IsFragment(heap, lastCall.ref)
       /\ stringify(heap, lastCall.ref) =
            stringify(heap, lastCall.self) \o RenderPart(lastCall.op, lastCall.arg)
       /\ stringify(heap, lastCall.ref) = RenderChain(chain[lastCall.ref])

C12_Witness ==
  /\ lastCall.op = "class"
  /\ lastCall.outcome = "returned"
  /\ Kinds(ReceiverChain) = <<"class", "class">>
  /\ stringify(heap, lastCall.ref) = ".a.b.a"

\* C13: combine() and stringify() never raise on values the builder produced:
\* combine takes any combinator string as it is, also one outside ' ', '+', '~',
\* '>', and rendering a fragment or a combined selector of any depth yields a
\* string; only part calls end in an error.
C13_CombineAndStringifyNeverRaise ==
  /\ lastCall.outcome # "returned" => (PartCalled /\ lastCall.outcome \in Errors)
  /\ lastCall.op = "combine" =>
       /\ lastCall.outcome = "returned"
       /\ IsCombined(heap, lastCall.ref)
       /\ heap[lastCall.ref].combinator = lastCall.arg
       /\ stringify(heap, lastCall.ref) =
            stringify(heap, heap[lastCall.ref].selector1) \o " " \o lastCall.arg \o " "
              \o stringify(heap, heap[lastCall.ref].selector2)
  /\ lastCall.op = "stringify" =>
       /\ lastCall.outcome = "returned"
       /\ lastCall.str \in STRING
  /\ \A r \in Refs : stringify_call(heap, r).outcome = "returned"
                       /\ stringify_call(heap, r).str \in STRING

C13_Witness ==
  /\ lastCall.op = "stringify"
  /\ lastCall.outcome = "returned"
  /\ IsCombined(heap, lastCall.self)
  /\ IsCombined(heap, heap[lastCall.self].selector1)
  /\ heap[lastCall.self].combinator = "x"
  /\ lastCall.str = "b x b x b"

\* The part method whose constructor made the object.
CtorKind(ctor) ==
  CASE ctor = "ElementSelector" -> "element"
    [] ctor = "IdSelector" -> "id"
    [] ctor = "ClassSelector" -> "class"
    [] ctor = "AttrSelector" -> "attr"
    [] ctor = "PseudoClassSelector" -> "pseudoClass"
    [] ctor = "PseudoElementSelector" -> "pseudoElement"

\* C14: the kind of a fragment (that of the last part added, which selects its
\* prototype) is the maximum kind of its chain, so the decision taken from the
\* receiver's type alone agrees with the decision computed from the whole chain,
\* for every requested kind.
C14_TypeIsMaximumKind ==
  \A r \in Fragments :
    LET k == CtorKind(heap[r].ctor)
        parts == chain[r]
    IN /\ k = LastKind(parts)
       /\ \A i \in 1..Len(parts) : Pos(parts[i].kind) <= Pos(k)
       /\ \A m \in Methods :
            LET byType == Lookup(heap, r, m)
                byLast == Decision(<<[kind |-> k, value |-> heap[r].value]>>, m)
                byChain == Decision(parts, m)
            IN /\ byChain = byLast
               /\ byType = IF byChain = "returned" THEN m ELSE byChain

C14_Witness ==
  \E r \in Fragments :
    /\ Kinds(chain[r]) = <<"element", "class", "pseudoElement">>
    /\ heap[r].ctor = "PseudoElementSelector"

\* C15: a chain holding a pseudoElement part is terminal: on such a fragment
\* pseudoElement() raises the cardinality error and the five other part methods
\* raise the order error, so pseudoElement is the last part of every chain that
\* holds it and no fragment is derived from such a fragment.
C15_PseudoElementIsTerminal ==
  /\ \A r \in Fragments : HasKind(chain[r], "pseudoElement") =>
       /\ \A m \in Methods :
            Invoke(heap, r, m, "a") =
              [outcome |-> IF m = "pseudoElement" THEN "multipleSelectorsError"
                           ELSE "selectorsOrderError",
               heap |-> heap]
       /\ \A i \in 1..Len(chain[r]) :
            chain[r][i].kind = "pseudoElement" => i = Len(chain[r])
  /\ (PartCalled /\ HasKind(ReceiverChain, "pseudoElement")) =>
       lastCall.outcome = IF lastCall.op = "pseudoElement" THEN "multipleSelectorsError"
                          ELSE "selectorsOrderError"

C15_Witness ==
  /\ lastCall.op = "pseudoClass"
  /\ Kinds(ReceiverChain) = <<"element", "pseudoElement">>
  /\ lastCall.outcome = "selectorsOrderError"

\* C16: a combined selector holds references to its operands and renders them when
\* asked, yet its stringify() is always the string made of the operands'
\* renderings at the moment of combine(): at the combine step it is built from the
\* renderings in the state before the step, and no later step (part call, failed
\* call, combine or stringify) changes it.
C16_CombinedRendersAsAtCombine ==
  [][ /\ \A r \in 1..Len(heap) : IsCombined(heap, r) =>
           /\ r <= Len(heap')
           /\ IsCombined(heap', r)
           /\ stringify(heap', r) = stringify(heap, r)
      /\ (lastCall'.op = "combine" /\ Len(heap') = Len(heap) + 1) =>
           LET n == lastCall'.ref IN
             /\ n = Len(heap) + 1
             /\ heap'[n].selector1 \in 1..Len(heap)
             /\ heap'[n].selector2 \in 1..Len(heap)
             /\ stringify(heap', n) =
                  stringify(heap, heap'[n].selector1) \o " " \o lastCall'.arg \o " "
                    \o stringify(heap, heap'[n].selector2)
    ]_vars

C16_Witness ==
  /\ Len(heap) = 3
  /\ IsFragment(heap, 1)
  /\ IsCombined(heap, 2)
  /\ heap[2].selector1 = 1
  /\ IsFragment(heap, 3)
  /\ Len(chain[3]) = 2
  /\ heap[3].prevValue = stringify(heap, 1)
  /\ lastCall.op = "stringify"
  /\ lastCall.self = 2
  /\ lastCall.str = "a + a"

\* The string A c1 B c2 C, with one space added on each side of a combinator.
Flat(h, A, c1, B, c2, C) ==
  stringify(h, A) \o " " \o c1 \o " " \o stringify(h, B) \o " " \o c2 \o " "
    \o stringify(h, C)

\* C17: the rendering of nested combines does not record the shape of the tree:
\* combine(A, c1, combine(B, c2, C)) and combine(combine(A, c1, B), c2, C) both
\* render as A c1 B c2 C, for all built selectors A, B, C and combinators c1, c2.
\* The two trees are built over every heap, which is the heap of a state reached
\* by the call that built its last object.
C17_NestingIsNotRecorded ==
  /\ \A x \in CombinedSelectors :
       /\ IsCombined(heap, heap[x].selector2) =>
            LET y == heap[x].selector2 IN
              stringify(heap, x) =
                Flat(heap, heap[x].selector1, heap[x].combinator,
                     heap[y].selector1, heap[y].combinator, heap[y].selector2)
       /\ IsCombined(heap, heap[x].selector1) =>
            LET z == heap[x].selector1 IN
              stringify(heap, x) =
                Flat(heap, heap[z].selector1, heap[z].combinator,
                     heap[z].selector2, heap[x].combinator, heap[x].selector2)
  /\ lastCall.op # "stringify" =>
     \A A \in Refs, B \in Refs, C \in Refs : \A c1 \in Combinators, c2 \in Combinators :
       LET inner == combine(heap, B, c2, C).heap
           right == combine(inner, A, c1, Len(inner)).heap
           first == combine(heap, A, c1, B).heap
           left == combine(first, Len(first), c2, C).heap
       IN /\ stringify(right, Len(right)) = stringify(left, Len(left))
          /\ stringify(right, Len(right)) = Flat(heap, A, c1, B, c2, C)

C17_Witness ==
  /\ lastCall.op = "stringify"
  /\ IsCombined(heap, lastCall.self)
  /\ IsCombined(heap, heap[lastCall.self].selector2)
  /\ lastCall.str = "a + a.b x #b"

====
